---- MODULE Spec2Model ----
(***************************************************************************)
(* Model of caikit/runtime/http_server/pydantic_wrapper.py:                *)
(*   - the request decoder (pydantic_from_request and the form-data path   *)
(*     _parse_form_data_to_pydantic / _get_pydantic_subtypes),             *)
(*   - the type mapper and the registry PYDANTIC_TO_DM_MAPPING             *)
(*     (dataobject_to_pydantic / _get_pydantic_type).                      *)
(***************************************************************************)
EXTENDS Integers, Sequences, FiniteSets, TLC

VARIABLES
    \* ---- request decoder ----
    phase,      \* "idle" | "received" | "done": position of the request handler
    request,    \* the request in flight: [ct, form, bodyOk]
    outcome,    \* what pydantic_from_request returned or raised
    raw_model_obj,  \* the object the form path assembles (its writes, in order)
    \* ---- type mapper / registry ----
    fwd,        \* PYDANTIC_TO_DM_MAPPING restricted to data model classes
    rev,        \* PYDANTIC_TO_DM_MAPPING restricted to pydantic models
    objDm,      \* every pydantic model class constructed so far -> its dm class
    stack,      \* per thread: the call stack of dataobject_to_pydantic frames
    returned,   \* every <<dm_class, schema>> a call of dataobject_to_pydantic returned
    raised      \* every <<dm_class, error>> a top-level call ended with

decoderVars == <<phase, request, outcome, raw_model_obj>>
mapperVars == <<fwd, rev, objDm, stack, returned, raised>>
vars == <<phase, request, outcome, raw_model_obj, fwd, rev, objDm, stack, returned, raised>>

(***************************************************************************)
(* Bounds                                                                  *)
(***************************************************************************)
\* number of (key, value) parts of one multipart form
MaxParts == 2
\* stands for the interpreter's recursion limit (sys.getrecursionlimit())
MaxDepth == 3
\* number of pydantic model classes that may be constructed
MaxObjs == 3

(***************************************************************************)
(* The validation schema the decoder is run against.  Types are named by   *)
(* strings; the tables below give each name its structure.                 *)
(*   Root:  n: int, a: RecA, items: List[int], s: Union[str, RecX],        *)
(*          r: Union[RecX, str], f: Union[RecX, bytes],                    *)
(*          u: Union[RecA, RecX]                                           *)
(*   RecA:  b: int          RecX:  x: int                                  *)
(***************************************************************************)
Models == {"Root", "RecA", "RecX"}
PlainClasses == {"int", "str", "bytes"}
ListTypes == {"List_int"}
UnionTypes == {"U_str_RecX", "U_RecX_str", "U_RecX_bytes", "U_RecA_RecX"}

\* typing.get_args of a List[...] / Union[...] hint
get_args(t) ==
    CASE t = "List_int" -> <<"int">>
      [] t = "U_str_RecX" -> <<"str", "RecX">>
      [] t = "U_RecX_str" -> <<"RecX", "str">>
      [] t = "U_RecX_bytes" -> <<"RecX", "bytes">>
      [] t = "U_RecA_RecX" -> <<"RecA", "RecX">>
      [] OTHER -> <<>>

\* The annotations of a class, as get_type_hints(cls) returns them: the
\* declared fields of a pydantic model, nothing for a plain class.
get_type_hints(t) ==
    CASE t = "Root" -> [n |-> "int", a |-> "RecA", items |-> "List_int",
                        s |-> "U_str_RecX", r |-> "U_RecX_str",
                        f |-> "U_RecX_bytes", u |-> "U_RecA_RecX"]
      [] t = "RecA" -> [b |-> "int"]
      [] t = "RecX" -> [x |-> "int"]
      [] OTHER -> <<>>

\* typing.get_type_hints raises TypeError on anything that is not a class
\* (a List[...] or Union[...] alias has no __annotations__).
GetTypeHintsRaises(t) == t \notin (Models \cup PlainClasses)

\* typing.get_origin of a type hint: list, Union or None.
get_origin(t) ==
    IF t \in ListTypes THEN "list"
    ELSE IF t \in UnionTypes THEN "Union" ELSE "None"

\* the test written with isinstance in place of issubclass: no class passes
IsModelClass_Isinstance(t) == FALSE

\* inspect.isclass(t) and issubclass(t, pydantic.BaseModel)
IsModelClass(t) == t \in Models

(***************************************************************************)
(* Raw values of a form part and what the decoder turns them into.         *)
(***************************************************************************)
Text(s) == [k |-> "text", v |-> s]      \* a str form value
File(s) == [k |-> "file", v |-> s]      \* a starlette UploadFile
Json(s) == [k |-> "json", v |-> s]      \* the object json.loads(s) returned
Bytes(s) == [k |-> "bytes", v |-> s]    \* the bytes UploadFile.file.read() returned

\* texts json.loads accepts: two numbers and the object {"x": 1}
JsonTexts == {"1", "2", "{x:1}"}
RawValues == {Text("hello"), Text("1"), Text("2"), Text("{x:1}"), Text(""), File("F")}

\* bool(v): an empty str is falsy, an UploadFile is truthy
Truthy(v) == v # Text("")

\* json.loads(v): str input parses or raises JSONDecodeError; an UploadFile
\* or an already parsed object raises TypeError ("the JSON object must be
\* str, bytes or bytearray"); bytes are decoded and parsed like text.
json_loads(v) ==
    CASE v.k = "text" /\ v.v \in JsonTexts -> [st |-> "ok", val |-> Json(v.v)]
      [] v.k = "text" /\ v.v \notin JsonTexts -> [st |-> "JSONDecodeError", val |-> v]
      [] v.k = "bytes" -> [st |-> "JSONDecodeError", val |-> v]
      [] OTHER -> [st |-> "TypeError", val |-> v]

(***************************************************************************)
(* starlette FormData: a multi-dict kept as the list of submitted parts.   *)
(***************************************************************************)
\* the dotted keys of the model, already split at "." (a dotted string and
\* its non-empty list of segments determine each other)
Keys == { <<"n">>, <<"a">>, <<"a", "b">>, <<"items">>, <<"s">>, <<"r">>, <<"f">>,
          <<"u", "x">>, <<"zzz">>, <<"n", "b">>, <<"items", "x">>, <<"u", "zzz">> }

Parts == [key : Keys, val : RawValues]

RECURSIVE SeqsUpTo(_, _)
SeqsUpTo(S, n) ==
    IF n = 0 THEN { <<>> }
    ELSE LET shorter == SeqsUpTo(S, n - 1)
         IN  shorter \cup { Append(q, e) : q \in shorter, e \in S }

Forms == SeqsUpTo(Parts, MaxParts)

\* FormData.keys(): each key once, in order of first submission
RECURSIVE FormKeys(_)
FormKeys(form) ==
    IF form = <<>> THEN <<>>
    ELSE LET front == FormKeys(SubSeq(form, 1, Len(form) - 1))
             key == form[Len(form)].key
         IN  IF \E i \in 1..Len(front) : front[i] = key THEN front
             ELSE Append(front, key)

\* FormData.getlist(key): a new list of every value submitted under key
RECURSIVE GetList(_, _)
GetList(form, key) ==
    IF form = <<>> THEN <<>>
    ELSE LET rest == GetList(Tail(form), key)
         IN  IF Head(form).key = key THEN <<Head(form).val>> \o rest ELSE rest

(***************************************************************************)
(* _get_pydantic_subtypes: resolve a split dotted key against a model.     *)
(* The result is [st, hints]: st = "TypeError" when get_type_hints raised, *)
(* hints = <<>> for both falsy results of the code ([] and the None of a   *)
(* union loop that found nothing; the caller only tests truthiness).       *)
(***************************************************************************)
RECURSIVE get_pydantic_subtypes(_, _), FirstMatchingArg(_, _, _)
get_pydantic_subtypes(pydantic_model, keys) ==
    IF Len(keys) = 0 THEN [st |-> "ok", hints |-> <<pydantic_model>>]
    ELSE IF GetTypeHintsRaises(pydantic_model) THEN [st |-> "TypeError", hints |-> <<>>]
    ELSE LET current_key == keys[1]
             hints == get_type_hints(pydantic_model)
         IN  IF current_key \notin DOMAIN hints THEN [st |-> "ok", hints |-> <<>>]
             ELSE LET current_type == hints[current_key]
                  IN  IF get_origin(current_type) = "Union"
                      THEN IF Len(keys) = 1
                           THEN [st |-> "ok", hints |-> get_args(current_type)]
                           ELSE FirstMatchingArg(get_args(current_type), Tail(keys), 1)
                      ELSE get_pydantic_subtypes(current_type, Tail(keys))

\* the loop "for arg in get_args(current_type)": the first truthy result wins
FirstMatchingArg(args, keys, i) ==
    IF i > Len(args) THEN [st |-> "ok", hints |-> <<>>]
    ELSE LET result == get_pydantic_subtypes(args[i], keys)
         IN  IF result.st = "TypeError" \/ result.hints # <<>> THEN result
             ELSE FirstMatchingArg(args, keys, i + 1)

(***************************************************************************)
(* raw_model_obj and update_dict_at_dot_path (caikit.runtime.http_server   *)
(* .utils).  raw_model_obj is kept as the list of writes made to it, each  *)
(* [path, val]; val is [many, vals]: the list raw_objects (many) or its    *)
(* first element alone.                                                    *)
(***************************************************************************)
IsPrefix(p, q) == Len(p) <= Len(q) /\ SubSeq(q, 1, Len(p)) = p

\* the write is refused when the path, a prefix of it or an extension of it
\* already holds a value
PathOccupied(obj, path) ==
    \E i \in 1..Len(obj) : IsPrefix(obj[i].path, path) \/ IsPrefix(path, obj[i].path)

update_dict_at_dot_path(obj, path, val) ==
    IF PathOccupied(obj, path) THEN [ok |-> FALSE, obj |-> obj]
    ELSE [ok |-> TRUE, obj |-> Append(obj, [path |-> path, val |-> val])]

(***************************************************************************)
(* _parse_form_data_to_pydantic                                            *)
(***************************************************************************)
\* model_type_hints is either a Python list/tuple of types (isSeq) or one
\* bare type; get_origin of a list or tuple object is None.
HintsOrigin(h) == IF h.isSeq THEN "None" ELSE get_origin(h.items[1])

\* lines 232-235: is_list and the unwrapping of a List[...] hint
IsList(h) == HintsOrigin(h) = "list"
UnwrapList(h) ==
    IF IsList(h) THEN [isSeq |-> FALSE, items |-> <<get_args(h.items[1])[1]>>] ELSE h

\* lines 238-239: a Union hint is replaced by the tuple of its alternatives
ExpandUnion(h) ==
    IF HintsOrigin(h) = "Union" THEN [isSeq |-> TRUE, items |-> get_args(h.items[1])] ELSE h

\* lines 248-254: json.loads over raw_objects, in place, until one fails
RECURSIVE ParseJsonInPlace(_, _)
ParseJsonInPlace(raw_objects, n) ==
    IF n > Len(raw_objects) THEN [st |-> "ok", objs |-> raw_objects]
    ELSE LET r == json_loads(raw_objects[n])
         IN  CASE r.st = "ok" ->
                    ParseJsonInPlace([raw_objects EXCEPT ![n] = r.val], n + 1)
               [] r.st = "JSONDecodeError" -> [st |-> "failed", objs |-> raw_objects]
               [] OTHER -> [st |-> "TypeError", objs |-> raw_objects]

\* lines 263-265: every UploadFile is replaced by the bytes read from it
ReadFiles(raw_objects) ==
    [n \in 1..Len(raw_objects) |->
        IF raw_objects[n].k = "file" THEN Bytes(raw_objects[n].v) ELSE raw_objects[n]]

\* the reduction taking the last element in place of the first
ReduceToFirst_KeepsLast(raw_objects, is_list) ==
    IF is_list THEN [many |-> TRUE, vals |-> raw_objects]
    ELSE [many |-> FALSE, vals |-> <<raw_objects[Len(raw_objects)]>>]

\* lines 268-269: a non-list field keeps the first element only
ReduceToFirst(raw_objects, is_list) ==
    IF is_list THEN [many |-> TRUE, vals |-> raw_objects]
    ELSE [many |-> FALSE, vals |-> <<raw_objects[1]>>]

\* lines 267-279: reduce, write, and report "written" or "exists"
WriteKey(obj, key, raw_objects, is_list) ==
    LET upd == update_dict_at_dot_path(obj, key, ReduceToFirst(raw_objects, is_list))
    IN  IF upd.ok THEN [st |-> "written", obj |-> upd.obj]
        ELSE [st |-> "exists", obj |-> obj]

\* lines 244-279: the loop over the candidate types of one key
RECURSIVE TryCandidates(_, _, _, _, _, _)
TryCandidates(type_hints, i, raw_objects, is_list, obj, key) ==
    IF i > Len(type_hints) THEN [st |-> "noparse", obj |-> obj]
    ELSE LET type_hint == type_hints[i]
         IN  IF IsModelClass(type_hint)
             THEN LET parsed == ParseJsonInPlace(raw_objects, 1)
                  IN  CASE parsed.st = "TypeError" -> [st |-> "TypeError", obj |-> obj]
                        [] parsed.st = "failed" ->
                             TryCandidates(type_hints, i + 1, parsed.objs, is_list, obj, key)
                        [] OTHER -> WriteKey(obj, key, parsed.objs, is_list)
             ELSE IF type_hint = "bytes"
             THEN WriteKey(obj, key, ReadFiles(raw_objects), is_list)
             ELSE WriteKey(obj, key, raw_objects, is_list)

\* lines 216-286 for one key; st = "skip" is the "continue" of line 220
ParseKey(form, key, obj) ==
    LET raw_objects == GetList(form, key)
    IN  IF raw_objects = <<>> \/ ~Truthy(raw_objects[1]) THEN [st |-> "skip", obj |-> obj]
        ELSE LET sub == get_pydantic_subtypes("Root", key)
             IN  IF sub.st = "TypeError" THEN [st |-> "TypeError", obj |-> obj]
                 ELSE IF sub.hints = <<>> THEN [st |-> "unknown", obj |-> obj]
                 ELSE LET h0 == [isSeq |-> TRUE, items |-> sub.hints]
                          is_list == IsList(h0)
                          h2 == ExpandUnion(UnwrapList(h0))
                      IN  IF ~h2.isSeq THEN [st |-> "TypeError", obj |-> obj]
                          ELSE TryCandidates(h2.items, 1, raw_objects, is_list, obj, key)

(***************************************************************************)
(* pydantic_model.model_validate(raw_model_obj): whether every value the   *)
(* form path wrote is acceptable to the declared type at its path.         *)
(***************************************************************************)
RECURSIVE Fits(_, _)
Fits(t, val) ==
    CASE t \in UnionTypes -> \E i \in 1..Len(get_args(t)) : Fits(get_args(t)[i], val)
      [] t \in ListTypes ->
            /\ val.many
            /\ \A i \in 1..Len(val.vals) :
                 Fits(get_args(t)[1], [many |-> FALSE, vals |-> <<val.vals[i]>>])
      [] t = "int" -> ~val.many /\ val.vals[1].k \in {"text", "json"}
                               /\ val.vals[1].v \in {"1", "2"}
      [] t = "str" -> ~val.many /\ val.vals[1].k = "text"
         \* _from_base64 decodes a str; none of the modelled texts is base64
      [] t = "bytes" -> ~val.many /\ val.vals[1].k = "bytes"
         \* extra="forbid": only RecX takes the object {"x": 1}
      [] t = "RecX" -> ~val.many /\ val.vals[1] = Json("{x:1}")
      [] OTHER -> FALSE

RECURSIVE FitsAt(_, _, _)
FitsAt(t, path, val) ==
    IF path = <<>> THEN Fits(t, val)
    ELSE IF t \in Models
    THEN /\ path[1] \in DOMAIN get_type_hints(t)
         /\ FitsAt(get_type_hints(t)[path[1]], Tail(path), val)
    ELSE IF t \in UnionTypes
    THEN \E i \in 1..Len(get_args(t)) : FitsAt(get_args(t)[i], path, val)
    ELSE FALSE

model_validate(obj) == \A i \in 1..Len(obj) : FitsAt("Root", obj[i].path, obj[i].val)

NoKey == <<>>

\* lines 212-292: the loop over form_data.keys(), then the final validation.
\* pydantic 2 (which this module requires: model_validate, functional_validators)
\* has no ValidationError.raw_errors, so line 292 raises AttributeError.
RECURSIVE ParseKeysFrom(_, _, _, _)
ParseKeysFrom(form, keys, i, obj) ==
    IF i > Len(keys)
    THEN IF model_validate(obj) THEN [kind |-> "Instance", key |-> NoKey, obj |-> obj]
         ELSE [kind |-> "AttributeError", key |-> NoKey, obj |-> obj]
    ELSE LET r == ParseKey(form, keys[i], obj)
         IN  CASE r.st \in {"skip", "written"} -> ParseKeysFrom(form, keys, i + 1, r.obj)
               [] r.st = "unknown" ->
                    [kind |-> "HTTP422_UnknownKey", key |-> keys[i], obj |-> r.obj]
               [] r.st = "exists" ->
                    [kind |-> "HTTP422_ValueExists", key |-> keys[i], obj |-> r.obj]
               [] r.st = "noparse" ->
                    [kind |-> "HTTP422_FailedToParse", key |-> keys[i], obj |-> r.obj]
               [] OTHER -> [kind |-> "TypeError", key |-> keys[i], obj |-> r.obj]

parse_form_data_to_pydantic(form) == ParseKeysFrom(form, FormKeys(form), 1, <<>>)

(***************************************************************************)
(* pydantic_from_request                                                   *)
(***************************************************************************)
\* request.headers.get("Content-Type"): None, or a string kept as its list
\* of tokens (media type, then parameters)
NoHeader == [present |-> FALSE, toks |-> <<>>]
Header(toks) == [present |-> TRUE, toks |-> toks]
ContentTypes ==
    { NoHeader, Header(<<>>), Header(<<"application/json">>),
      Header(<<"application/json", "; charset=utf-8">>),
      Header(<<"multipart/form-data", "; boundary=x">>),
      Header(<<"text/plain">>) }

\* content_type == "application/json"
IsJson(ct) == ct.present /\ ct.toks = <<"application/json">>
\* "multipart/form-data" in content_type, defined on a str only
ContainsMultipart(ct) == \E i \in 1..Len(ct.toks) : ct.toks[i] = "multipart/form-data"

pydantic_from_request(req) ==
    IF IsJson(req.ct)
    THEN IF req.bodyOk THEN [kind |-> "Instance", key |-> NoKey, obj |-> <<>>]
         ELSE [kind |-> "HTTP422_RequestValidationError", key |-> NoKey, obj |-> <<>>]
    ELSE IF ~req.ct.present THEN [kind |-> "TypeError", key |-> NoKey, obj |-> <<>>]
    ELSE IF ContainsMultipart(req.ct) THEN parse_form_data_to_pydantic(req.form)
    ELSE [kind |-> "HTTP415", key |-> NoKey, obj |-> <<>>]

\* every content type with a small form and either body; the multipart
\* content type with every form
Requests ==
    { [ct |-> c, form |-> f, bodyOk |-> b] :
        c \in ContentTypes, f \in SeqsUpTo(Parts, 1), b \in BOOLEAN }
    \cup { [ct |-> Header(<<"multipart/form-data", "; boundary=x">>),
            form |-> f, bodyOk |-> FALSE] : f \in Forms }

NoRequest == [ct |-> NoHeader, form |-> <<>>, bodyOk |-> FALSE]
NoOutcome == [kind |-> "none", key |-> NoKey]

DecoderInit ==
    /\ phase = "idle"
    /\ request = NoRequest
    /\ outcome = NoOutcome
    /\ raw_model_obj = <<>>

\* a request arrives at the route
ReceiveRequest ==
    /\ phase = "idle"
    /\ phase' = "received"
    /\ request' \in Requests
    /\ UNCHANGED <<outcome, raw_model_obj>>
    /\ UNCHANGED mapperVars

\* the whole handler runs on the request in flight
HandleRequest ==
    /\ phase = "received"
    /\ LET res == pydantic_from_request(request)
       IN  /\ outcome' = [kind |-> res.kind, key |-> res.key]
           /\ raw_model_obj' = res.obj
    /\ phase' = "done"
    /\ UNCHANGED request
    /\ UNCHANGED mapperVars

\* the response is sent; raw_model_obj is dropped with the call
Respond ==
    /\ phase = "done"
    /\ phase' = "idle"
    /\ request' = NoRequest
    /\ outcome' = NoOutcome
    /\ raw_model_obj' = <<>>
    /\ UNCHANGED mapperVars

(***************************************************************************)
(* The data model the type mapper is run on.  Data model classes           *)
(* (DataBase subclasses) and the type hints of their fields:               *)
(*   Leaf:  v: int                                                         *)
(*   Pair:  l: Leaf, r: Union[Leaf, None]                                  *)
(*   Doc:   tags: StrSequence, leaves: List[Leaf], meta: Dict[str, int]    *)
(*   Node:  next: Union[Node, None]             (self-referential)         *)
(*   Ping:  pong: Pong       Pong:  ping: List[Ping]  (mutually recursive) *)
(*   Odd:   leaf: Annotated[Leaf, ...], s: set  (set is not supported)     *)
(* StrSequence and IntSequence are the primitive-sequence aliases.         *)
(***************************************************************************)
AliasClasses == {"StrSequence", "IntSequence"}
RecordClasses == {"Leaf", "Pair", "Doc", "Node", "Ping", "Pong", "Odd"}
DmClasses == AliasClasses \cup RecordClasses
DmLeaves == {"int", "str", "NoneType"}

\* get_type_hints(dm_class).items(): the field types, in declaration order
DmFieldTypes(dm_class) ==
    CASE dm_class = "Leaf" -> <<"int">>
      [] dm_class = "Pair" -> <<"Leaf", "Opt_Leaf">>
      [] dm_class = "Doc" -> <<"StrSequence", "List_Leaf", "Dict_str_int">>
      [] dm_class = "Node" -> <<"Opt_Node">>
      [] dm_class = "Ping" -> <<"Pong">>
      [] dm_class = "Pong" -> <<"List_Ping">>
      [] dm_class = "Odd" -> <<"Ann_Leaf", "set">>
      [] OTHER -> <<>>

\* get_origin / get_args of a data model field type
DmOrigin(t) ==
    CASE t \in {"Opt_Leaf", "Opt_Node"} -> "Union"
      [] t \in {"List_Leaf", "List_Ping"} -> "list"
      [] t = "Dict_str_int" -> "dict"
      [] t = "Ann_Leaf" -> "Annotated"
      [] OTHER -> "None"

DmArgs(t) ==
    CASE t = "Opt_Leaf" -> <<"Leaf", "NoneType">>
      [] t = "Opt_Node" -> <<"Node", "NoneType">>
      [] t = "List_Leaf" -> <<"Leaf">>
      [] t = "List_Ping" -> <<"Ping">>
      [] t = "Dict_str_int" -> <<"str", "int">>
      [] t = "Ann_Leaf" -> <<"Leaf">>
      [] OTHER -> <<>>

\* the marker a field type contributes when _get_pydantic_type raises TypeError
Unsupported == "!TypeError"

(***************************************************************************)
(* _get_pydantic_type: the registry is touched only by the calls of        *)
(* dataobject_to_pydantic it makes, so a field type is reduced to those    *)
(* calls, in evaluation order, ending at the marker if it raises.          *)
(***************************************************************************)
RECURSIVE get_pydantic_type(_), get_pydantic_types(_, _)
get_pydantic_type(field_type) ==
    CASE field_type \in DmLeaves -> <<>>
      [] field_type \in DmClasses -> <<field_type>>
      [] DmOrigin(field_type) = "Annotated" -> get_pydantic_type(DmArgs(field_type)[1])
      [] DmOrigin(field_type) \in {"Union", "list", "dict"} ->
            get_pydantic_types(DmArgs(field_type), 1)
      [] OTHER -> <<Unsupported>>

\* the arguments of a Union, List or Dict hint, mapped left to right
get_pydantic_types(args, i) ==
    IF i > Len(args) THEN <<>>
    ELSE LET first == get_pydantic_type(args[i])
         IN  IF first # <<>> /\ first[Len(first)] = Unsupported THEN first
             ELSE first \o get_pydantic_types(args, i + 1)

\* lines 107-110: the calls made while the annotations of dm_class are built
FieldCalls(dm_class) == get_pydantic_types(DmFieldTypes(dm_class), 1)

(***************************************************************************)
(* dataobject_to_pydantic, one step at a time.  Pydantic model classes     *)
(* are numbered in order of construction; the List[...] an alias maps to   *)
(* is a negative number.                                                   *)
(***************************************************************************)
NumThreads == 2
Threads == 1..NumThreads

AliasTarget(dm_class) == IF dm_class = "StrSequence" THEN -1 ELSE -2

Frame(dm_class) == [dm |-> dm_class, pc |-> "check", idx |-> 1, refs |-> <<>>, obj |-> 0]

Top(t) == stack[t][Len(stack[t])]
Running(t, pc) == stack[t] # <<>> /\ Top(t).pc = pc

\* "return value" from the top frame of thread t: the caller's frame, if
\* any, takes it as the next annotation
Return(t, value) ==
    LET n == Len(stack[t])
        rest == SubSeq(stack[t], 1, n - 1)
    IN  /\ returned' = returned \cup {<<Top(t).dm, value>>}
        /\ stack' = [stack EXCEPT ![t] =
                IF n = 1 THEN <<>>
                ELSE [rest EXCEPT ![n - 1].idx = @ + 1,
                                  ![n - 1].refs = Append(@, value)]]
        /\ UNCHANGED raised

\* an exception no frame catches: the whole stack unwinds
Raise(t, error) ==
    /\ stack' = [stack EXCEPT ![t] = <<>>]
    /\ raised' = raised \cup {<<stack[t][1].dm, error>>}
    /\ UNCHANGED returned

\* the lookup made under a key the registry never holds
Registered_WrongKey(dm_class) == FALSE

\* line 104: "dm_class in PYDANTIC_TO_DM_MAPPING"
Registered(dm_class) == dm_class \in DOMAIN fwd

\* a caller asks for the pydantic model of dm_class
Call(t, dm_class) ==
    /\ stack[t] = <<>>
    /\ stack' = [stack EXCEPT ![t] = <<Frame(dm_class)>>]
    /\ UNCHANGED <<fwd, rev, objDm, returned, raised>>
    /\ UNCHANGED decoderVars

\* lines 104-105: return the registered schema, or go on to the fields
Check(t) ==
    /\ Running(t, "check")
    /\ IF Registered(Top(t).dm)
       THEN Return(t, fwd[Top(t).dm])
       ELSE /\ stack' = [stack EXCEPT ![t][Len(stack[t])].pc = "fields"]
            /\ UNCHANGED <<returned, raised>>
    /\ UNCHANGED <<fwd, rev, objDm>>
    /\ UNCHANGED decoderVars

\* lines 107-110: the next call of dataobject_to_pydantic a field makes
\* (line 156), or the TypeError of line 174, or on to the construction
MapFields(t) ==
    /\ Running(t, "fields")
    /\ LET calls == FieldCalls(Top(t).dm)
           i == Top(t).idx
       IN  IF i > Len(calls)
           THEN /\ stack' = [stack EXCEPT ![t][Len(stack[t])].pc = "construct"]
                /\ UNCHANGED <<returned, raised>>
           ELSE IF calls[i] = Unsupported THEN Raise(t, "TypeError")
           ELSE IF Len(stack[t]) >= MaxDepth THEN Raise(t, "RecursionError")
           ELSE /\ stack' = [stack EXCEPT ![t] = Append(@, Frame(calls[i]))]
                /\ UNCHANGED <<returned, raised>>
    /\ UNCHANGED <<fwd, rev, objDm>>
    /\ UNCHANGED decoderVars

\* lines 111-124: a new pydantic model class is created
Construct(t) ==
    /\ Running(t, "construct")
    /\ Len(objDm) < MaxObjs
    /\ objDm' = Append(objDm, [dm |-> Top(t).dm, refs |-> Top(t).refs])
    /\ stack' = [stack EXCEPT ![t][Len(stack[t])].pc = "forward",
                              ![t][Len(stack[t])].obj = Len(objDm) + 1]
    /\ UNCHANGED <<fwd, rev, returned, raised>>
    /\ UNCHANGED decoderVars

\* line 125: PYDANTIC_TO_DM_MAPPING[dm_class] = pydantic_model
RegisterForward(t) ==
    /\ Running(t, "forward")
    /\ fwd' = (Top(t).dm :> Top(t).obj) @@ fwd
    /\ stack' = [stack EXCEPT ![t][Len(stack[t])].pc = "reverse"]
    /\ UNCHANGED <<rev, objDm, returned, raised>>
    /\ UNCHANGED decoderVars

\* lines 128-129: PYDANTIC_TO_DM_MAPPING[pydantic_model] = dm_class; return
RegisterReverse(t) ==
    /\ Running(t, "reverse")
    /\ rev' = (Top(t).obj :> Top(t).dm) @@ rev
    /\ Return(t, Top(t).obj)
    /\ UNCHANGED <<fwd, objDm>>
    /\ UNCHANGED decoderVars

\* lines 54-60: the registry starts with the primitive-sequence aliases
MapperInit ==
    /\ fwd = [d \in AliasClasses |-> AliasTarget(d)]
    /\ rev = <<>>
    /\ objDm = <<>>
    /\ stack = [t \in Threads |-> <<>>]
    /\ returned = {}
    /\ raised = {}

Init == DecoderInit /\ MapperInit

DecoderNext ==
    \/ ReceiveRequest
    \/ HandleRequest
    \/ Respond

ThreadNext(t) ==
    \/ \E d \in DmClasses : Call(t, d)
    \/ Check(t)
    \/ MapFields(t)
    \/ Construct(t)
    \/ RegisterForward(t)
    \/ RegisterReverse(t)

\* the request decoder
SpecDecoder == Init /\ [][DecoderNext]_vars

\* the type mapper called from one thread
SpecMapper == Init /\ [][ThreadNext(1)]_vars

\* the type mapper called from several threads
SpecRace == Init /\ [][\E t \in Threads : ThreadNext(t)]_vars

(***************************************************************************)
(* Properties of the request decoder (checked under SpecDecoder)           *)
(***************************************************************************)
\* the handler has run on a request whose Content-Type names a multipart form
DecodedForm ==
    phase = "done" /\ request.ct.present /\ ContainsMultipart(request.ct)

\* every part of the form was submitted under the one key
OneKey(form, key) == form # <<>> /\ \A i \in 1..Len(form) : form[i].key = key

\* the dotted path names a location of the schema: each segment is a field
\* declared at its level, a union standing for any of its alternatives
RECURSIVE Resolvable(_, _)
Resolvable(t, path) ==
    IF path = <<>> THEN TRUE
    ELSE IF t \in Models
    THEN /\ path[1] \in DOMAIN get_type_hints(t)
         /\ Resolvable(get_type_hints(t)[path[1]], Tail(path))
    ELSE IF t \in UnionTypes
    THEN \E i \in 1..Len(get_args(t)) : Resolvable(get_args(t)[i], path)
    ELSE FALSE

\* the declared type of the field a resolvable, union-free path ends at
RECURSIVE FieldType(_, _)
FieldType(t, path) ==
    IF path = <<>> THEN t
    ELSE IF t \in Models /\ path[1] \in DOMAIN get_type_hints(t)
    THEN FieldType(get_type_hints(t)[path[1]], Tail(path))
    ELSE "None"

Scalar(v) == [many |-> FALSE, vals |-> <<v>>]
Written(path, val) == [path |-> path, val |-> val]

DeclaredOutcomes ==
    {"Instance", "HTTP422_RequestValidationError", "HTTP422_UnknownKey",
     "HTTP422_ValueExists", "HTTP422_FailedToParse"}

\* C3 (as claimed): a request whose Content-Type is neither exactly
\* application/json nor contains multipart/form-data, a missing header
\* included, ends with the 415 error and nothing else.
C3_UnsupportedIs415 ==
    (/\ phase = "done"
     /\ ~IsJson(request.ct)
     /\ ~(request.ct.present /\ ContainsMultipart(request.ct)))
    => (outcome.kind = "HTTP415" /\ raw_model_obj = <<>>)

\* C4 (as claimed): every decode of a multipart form ends with a validated
\* instance or one of the declared 422 errors; in particular a file value
\* under Union[RecX, bytes] is passed on to the bytes candidate.
C4_DeclaredOutcomesOnly ==
    DecodedForm =>
        /\ outcome.kind \in DeclaredOutcomes
        /\ (request.form = <<[key |-> <<"f">>, val |-> File("F")]>>)
             => raw_model_obj = <<Written(<<"f">>, Scalar(Bytes("F")))>>

C6_ListFolding ==
    \A key \in Keys :
        (/\ DecodedForm
         /\ OneKey(request.form, key)
         /\ \A i \in 1..Len(request.form) : Truthy(request.form[i].val)
         /\ Resolvable("Root", key)
         /\ FieldType("Root", key) \in ListTypes)
        => raw_model_obj = <<Written(key,
                [many |-> TRUE, vals |-> GetList(request.form, key)])>>

\* C7 (as claimed): under Union[str, RecX] a text that is not JSON is written
\* unchanged and is a str, a text that is a JSON object is written as the
\* parsed record and is a RecX.
C7_UnionByJson ==
    (/\ DecodedForm
     /\ Len(request.form) = 1
     /\ request.form[1].key = <<"s">>)
    => /\ request.form[1].val = Text("hello") =>
            /\ raw_model_obj = <<Written(<<"s">>, Scalar(Text("hello")))>>
            /\ Fits("str", raw_model_obj[1].val) /\ ~Fits("RecX", raw_model_obj[1].val)
       /\ request.form[1].val = Text("{x:1}") =>
            /\ raw_model_obj = <<Written(<<"s">>, Scalar(Json("{x:1}")))>>
            /\ Fits("RecX", raw_model_obj[1].val) /\ ~Fits("str", raw_model_obj[1].val)

\* C7 (amended): the first candidate that accepts wins.  Under
\* Union[str, RecX] every text, a JSON object included, is written unchanged
\* and is a str; under Union[RecX, str] a text that is not JSON is written
\* unchanged and is a str, a JSON object is written parsed and is a RecX.
C7_FirstCandidateWins ==
    (/\ DecodedForm
     /\ Len(request.form) = 1
     /\ request.form[1].val \in {Text("hello"), Text("{x:1}")})
    => LET key == request.form[1].key
           raw == request.form[1].val
       IN  /\ (key = <<"s">> \/ (key = <<"r">> /\ raw = Text("hello"))) =>
                 /\ raw_model_obj = <<Written(key, Scalar(raw))>>
                 /\ Fits("str", raw_model_obj[1].val) /\ ~Fits("RecX", raw_model_obj[1].val)
           /\ (key = <<"r">> /\ raw = Text("{x:1}")) =>
                 /\ raw_model_obj = <<Written(key, Scalar(Json("{x:1}")))>>
                 /\ Fits("RecX", raw_model_obj[1].val) /\ ~Fits("str", raw_model_obj[1].val)
           /\ key \in {<<"s">>, <<"r">>} => outcome.kind = "Instance"

\* C7 witness: s={"x":1} was decoded under Union[str, RecX] and the text was
\* written as it came.
C7_Witness ==
    /\ DecodedForm
    /\ request.form = <<[key |-> <<"s">>, val |-> Text("{x:1}")]>>
    /\ raw_model_obj = <<Written(<<"s">>, Scalar(Text("{x:1}")))>>
    /\ outcome.kind = "Instance"

\* C8 (as claimed): a key with a non-empty first value whose path does not
\* resolve against the schema ends with the 422 "Unknown key" naming it, and
\* nothing is written.
C8_UnknownKeyRejected ==
    \A key \in Keys :
        (/\ DecodedForm
         /\ OneKey(request.form, key)
         /\ Truthy(request.form[1].val)
         /\ ~Resolvable("Root", key))
        => /\ outcome = [kind |-> "HTTP422_UnknownKey", key |-> key]
           /\ raw_model_obj = <<>>

\* C10 (as claimed): a candidate that rejects a key leaves its raw values as
\* submitted, so a parsed JSON value is written only when the Record
\* candidate took every raw value of the key.
C10_RejectedCandidateNoEffect ==
    DecodedForm =>
        \A i \in 1..Len(raw_model_obj) :
            (\E n \in 1..Len(raw_model_obj[i].val.vals) : raw_model_obj[i].val.vals[n].k = "json")
            => LET raw == GetList(request.form, raw_model_obj[i].path)
               IN  \A n \in 1..Len(raw) : raw[n].k = "text" /\ raw[n].v \in JsonTexts

(***************************************************************************)
(* Properties of the type mapper and the registry                          *)
(***************************************************************************)
\* C1 (as claimed, under SpecRace): whatever the interleaving of the callers,
\* no pydantic model is registered for a class whose forward entry is another
\* model, and all callers of one record class receive the same model.
C1_OneSchemaPerType ==
    /\ \A o \in DOMAIN rev : fwd[rev[o]] = o
    /\ \A a, b \in returned : a[1] = b[1] => a[2] = b[2]

\* C2 (as claimed, under SpecMapper): mapping terminates on every record
\* class: a class being built is never entered again below itself, and no
\* call ends with the recursion limit exceeded.
C2_Terminates ==
    /\ \A t \in Threads : \A i, j \in 1..Len(stack[t]) :
          stack[t][i].dm = stack[t][j].dm => i = j
    /\ \A r \in raised : r[2] # "RecursionError"

\* C9 (under SpecMapper): calls that follow one another return, for one
\* class, the identical schema; no class has a second model constructed;
\* a record class that was returned is registered both ways.
C9_Idempotent ==
    /\ \A a, b \in returned : a[1] = b[1] => a[2] = b[2]
    /\ \A i, j \in 1..Len(objDm) : objDm[i].dm = objDm[j].dm => i = j
    /\ \A a \in returned :
          a[1] \in RecordClasses =>
              /\ a[1] \in DOMAIN fwd /\ fwd[a[1]] = a[2]
              /\ a[2] \in DOMAIN rev /\ rev[a[2]] = a[1]

\* C9: a call on a registered class changes neither the registry nor the
\* set of models constructed.
C9_LookupOnly ==
    (\E t \in Threads : Running(t, "check") /\ Registered(Top(t).dm))
    => (fwd' = fwd /\ rev' = rev /\ objDm' = objDm)

\* C9: idempotent schema build, as a property of every behaviour
C9_IdempotentBuild == [](C9_Idempotent) /\ [][C9_LookupOnly]_vars

\* C9 witness: Pair was built from two calls on Leaf, the second of which
\* found Leaf registered and returned the model of the first.
C9_Witness ==
    /\ "Pair" \in DOMAIN fwd
    /\ "Leaf" \in DOMAIN fwd
    /\ objDm[fwd["Pair"]].refs = <<fwd["Leaf"], fwd["Leaf"]>>
    /\ <<"Pair", fwd["Pair"]>> \in returned

====
